---- MODULE Spec2Model ----
(***************************************************************************)
(* Rhythm.lua: the single-threaded task scheduler (class Scheduler) and    *)
(* the Lua entry points that drive it.                                     *)
(*                                                                         *)
(* Time is the steady clock, counted in clock units; one millisecond is    *)
(* NsPerMs clock units, so a DurationMs d is d * NsPerMs units and a       *)
(* duration_cast<DurationMs> is a truncating division by NsPerMs.          *)
(*                                                                         *)
(* tick() is modelled step by step (TickBegin, one TickVisit per task of   *)
(* the pass, ActionReturn after the task's function returns, TickEnd),     *)
(* because a task's function may call back into the scheduler: while a     *)
(* function is running (pc = "action") the scheduling and cancelling       *)
(* operations are enabled exactly as they are between operations           *)
(* (pc = "idle").                                                          *)
(*                                                                         *)
(* A registration made by a task function grows the deque under tick's     *)
(* range-for; the outcomes of that are a choice (PushBackPassEnd), one of  *)
(* them the end of the process at the next increment (pc = "aborted").     *)
(*                                                                         *)
(* loop() is modelled the same way: pc = "head" at its while condition,    *)
(* the steps of tick, pc = "wake" before its sleep.  loop() is called from *)
(* outside a task function.                                                *)
(*                                                                         *)
(* result, runs, tickRuns, cleanups, cancelled, every, looping, stopped    *)
(* and raised observe the program (return values, invocations of task.func *)
(* and task.cleanup, the loop() invocation in progress, failed task        *)
(* functions); no operation of the scheduler reads them.                   *)
(*                                                                         *)
(* Specifications: Spec is the scheduler driven by registrations, cancels  *)
(* and ticks; SpecLoop adds loop, stop_loop and ms_until_next_task;        *)
(* SpecFail adds task functions that fail; SpecMetrics is the build with   *)
(* RHYTHM_SCHEDULER_METRICS; FairOneShots is loop() over one-shot tasks,   *)
(* with the fairness of the thread that runs it; SpecExample is the README *)
(* example script.                                                         *)
(***************************************************************************)
EXTENDS Integers, Sequences, FiniteSets

\* ---------------------------------------------------------------- bounds
\* ids 1..MaxId are handed out; scheduling is disabled beyond that
MaxId == 4
\* registrations the environment of Spec makes (the README scenario makes
\* MaxId of them)
MaxRegs == 2
\* the steady clock runs over 0..MaxTime clock units
MaxTime == 3
\* delays and intervals passed to the scheduling calls, in milliseconds
MaxMs == 1
\* scheduler calls a task function makes during one run
MaxCalls == 1
\* clock units per millisecond (std::chrono: 1000000 ns)
NsPerMs == 2
\* clock units by which a sleep of loop() may overrun its wake time
MaxLate == 1
\* the run counter of a task counts up to MaxRuns
MaxRuns == 6
\* std::numeric_limits<unsigned int>::max(), scaled down
UIntMax == 3
\* DurationMs::max(), in milliseconds, scaled down
DurMsMax == 4
\* milliseconds a task function is measured to take
MaxRunMs == 2
\* registrations the environment of SpecMetrics makes
MetricsRegs == 1

\* TimePoint::max(), the "no task" value of m_nextTaskTime
TimePointMax == 1000000

Ids == 1..MaxId
TimePoints == 0..MaxTime
Ms == 0..MaxMs

VARIABLES
    m_tasks,         \* std::deque<Task>
    m_nextId,        \* next id to hand out
    m_nextTaskTime,  \* cached earliest nextRun, TimePointMax when none
    clock,           \* Clock::now()
    pc,              \* "idle": between operations; "pass": inside tick's loop;
                     \* "action": inside task.func of the task at idx;
                     \* "aborted": the process ended inside tick
    now,             \* tick's captured now
    idx,             \* position of tick's iterator in m_tasks
    passEnd,         \* last position the pass visits (negated when the
                     \* iterators of the pass no longer work)
    calls,           \* scheduler calls made by the running task function
    result,          \* what the call just made returned (Void otherwise)
    \* observations of the tasks in the store (forgotten with the purge)
    runs,            \* per id: times task.func ran
    tickRuns,        \* per id: times task.func ran in the current tick
    cleanups,        \* per id: times task.cleanup ran
    cancelled,       \* ids for which cancelTask returned true
    every,           \* ids registered by scheduleEvery
    m_running,       \* loop()'s flag, cleared by stopLoop()
    looping,         \* a loop() invocation is in progress
    stopped,         \* stopLoop() was called during that invocation
    raised,          \* ids whose task function raised a Lua error in this tick
    \* metrics (RHYTHM_SCHEDULER_METRICS)
    m_totalRuns,
    m_lateRuns,
    m_totalRunTime,      \* in milliseconds
    m_metricsStartTime

vars == <<m_tasks, m_nextId, m_nextTaskTime, clock, pc, now, idx, passEnd,
          calls, result, runs, tickRuns, cleanups, cancelled, every,
          m_running, looping, stopped, raised,
          m_totalRuns, m_lateRuns, m_totalRunTime, m_metricsStartTime>>

sched == <<m_tasks, m_nextId, m_nextTaskTime>>
tickLocals == <<now, idx, tickRuns>>
history == <<runs, cleanups, cancelled, every>>
loopFlags == <<m_running, stopped>>
metrics == <<m_totalRuns, m_lateRuns, m_totalRunTime, m_metricsStartTime>>
apart == <<loopFlags, metrics>>

\* ---------------------------------------------------------------- helpers
\* what a call handed back: a value, nothing (void), or a raised Lua error
ReturnedId(id) == <<"id", id>>
ReturnedBool(b) == <<"bool", b>>
Void == <<"void">>
Error == <<"error">>

\* DurationMs -> clock duration
DurationMs(ms) == ms * NsPerMs

\* std::chrono::duration_cast<DurationMs> of a non-negative clock duration
DurationCastMs(d) == d \div NsPerMs

\* an observation counter: 0, 1, or 2 for "more than once"
Bump(f, id) == [f EXCEPT ![id] = IF @ < 2 THEN @ + 1 ELSE @]

\* the run counter
Count(f, id) == [f EXCEPT ![id] = IF @ < MaxRuns THEN @ + 1 ELSE @]

\* struct Task
Task(id, interval, nextRun, skipIfLate, cleanup) ==
    [id |-> id, interval |-> interval, nextRun |-> nextRun,
     skipIfLate |-> skipIfLate, cleanup |-> cleanup, active |-> TRUE]

StoreIds == {m_tasks[p].id : p \in 1..Len(m_tasks)}

\* positions of the store holding an active task
ActivePositions == {p \in 1..Len(m_tasks) : m_tasks[p].active}

\* taskCount()
taskCount == Len(m_tasks)

\* std::find_if(begin, end, id match): first position holding id, 0 for end()
FindIf(id) ==
    IF \E p \in 1..Len(m_tasks) : m_tasks[p].id = id
    THEN CHOOSE p \in 1..Len(m_tasks) :
            /\ m_tasks[p].id = id
            /\ \A q \in 1..(p - 1) : m_tasks[q].id # id
    ELSE 0

\* A call into the scheduler comes from outside (idle) or from the running
\* task function; MaxCalls bounds the latter.
CallCtx ==
    /\ pc \in {"idle", "action"}
    /\ pc = "action" => (calls < MaxCalls /\ m_tasks[idx].id \notin raised)
    /\ calls' = IF pc = "action" THEN calls + 1 ELSE calls
    /\ UNCHANGED <<clock, pc, tickLocals, looping, raised>>

\* the cached end of a pass whose iterators no longer work (the next ++
\* fails): the end, negated
Singular(end) == IF end > 0 THEN -end ELSE end

\* m_tasks.push_back while tick's range-for holds iterators into the deque
\* invalidates them: the pass still stops at the end it cached, or runs on
\* over the new element, or fails at its next increment (an iterator that
\* reads the deque's freed map, a checked iterator that aborts).
PushBackPassEnd ==
    IF pc = "action"
    THEN passEnd' \in {passEnd, Len(m_tasks) + 1, Singular(passEnd)}
    ELSE passEnd' = passEnd

\* ---------------------------------------------------------------- registration
\* scheduleAt numbering the task by the size of the store
scheduleAtSizeId(time, cleanup) ==
    /\ CallCtx
    /\ m_nextId <= MaxId
    /\ m_tasks' = Append(m_tasks,
                         Task(Len(m_tasks) + 1, 0, time, FALSE, cleanup))
    /\ m_nextId' = m_nextId + 1
    /\ m_nextTaskTime' = IF time < m_nextTaskTime THEN time ELSE m_nextTaskTime
    /\ PushBackPassEnd
    /\ result' = ReturnedId(Len(m_tasks) + 1)
    /\ UNCHANGED <<history, apart>>

\* scheduleAt setting the cache to the new task's time unconditionally
scheduleAtOverwritesCache(time, cleanup) ==
    /\ CallCtx
    /\ m_nextId <= MaxId
    /\ m_tasks' = Append(m_tasks, Task(m_nextId, 0, time, FALSE, cleanup))
    /\ m_nextId' = m_nextId + 1
    /\ m_nextTaskTime' = time
    /\ PushBackPassEnd
    /\ result' = ReturnedId(m_nextId)
    /\ UNCHANGED <<history, apart>>

\* Scheduler::scheduleAt
scheduleAt(time, cleanup) ==
    /\ CallCtx
    /\ m_nextId <= MaxId
    /\ m_tasks' = Append(m_tasks, Task(m_nextId, 0, time, FALSE, cleanup))
    /\ m_nextId' = m_nextId + 1
    /\ m_nextTaskTime' = IF time < m_nextTaskTime THEN time ELSE m_nextTaskTime
    /\ PushBackPassEnd
    /\ result' = ReturnedId(m_nextId)
    /\ UNCHANGED <<history, apart>>

\* Scheduler::scheduleAfter
scheduleAfter(delay, cleanup) == scheduleAt(clock + delay, cleanup)

\* Scheduler::scheduleEvery
scheduleEvery(interval, cleanup, runImmediately, skipIfLate) ==
    LET nextRun == IF runImmediately THEN clock ELSE clock + interval IN
    /\ CallCtx
    /\ m_nextId <= MaxId
    /\ m_tasks' = Append(m_tasks,
                         Task(m_nextId, interval, nextRun, skipIfLate, cleanup))
    /\ m_nextId' = m_nextId + 1
    /\ m_nextTaskTime' = IF nextRun < m_nextTaskTime THEN nextRun
                         ELSE m_nextTaskTime
    /\ PushBackPassEnd
    /\ result' = ReturnedId(m_nextId)
    /\ every' = every \cup {m_nextId}
    /\ UNCHANGED <<runs, cleanups, cancelled, apart>>

\* luaL_error before anything is registered
LuaError ==
    /\ CallCtx
    /\ result' = Error
    /\ UNCHANGED <<sched, passEnd, history, apart>>

\* lua_schedule_after without the check of delayMs
lua_schedule_after_unchecked(delayMs) ==
    scheduleAfter(DurationMs(delayMs), TRUE)

\* lua_schedule_after(delayMs, fn)
lua_schedule_after(delayMs) ==
    IF delayMs < 0
    THEN LuaError
    ELSE scheduleAfter(DurationMs(delayMs), TRUE)

\* lua_schedule_every asking scheduleEvery for an immediate first run
lua_schedule_every_at_once(delayMs, extra) ==
    IF delayMs < 0
    THEN LuaError
    ELSE scheduleEvery(DurationMs(delayMs), TRUE, TRUE, FALSE)

\* lua_schedule_every(delayMs, fn, ...): arguments beyond the second are
\* popped unread, scheduleEvery gets its defaults
lua_schedule_every(delayMs, extra) ==
    IF delayMs < 0
    THEN LuaError
    ELSE scheduleEvery(DurationMs(delayMs), TRUE, FALSE, FALSE)

\* ---------------------------------------------------------------- cancellation
\* cancelTask taking the id for a position in the store
cancelTaskByPosition(id) ==
    LET it == IF id <= Len(m_tasks) THEN id ELSE 0 IN
    /\ CallCtx
    /\ IF it # 0
       THEN /\ m_tasks' = [m_tasks EXCEPT ![it].active = FALSE]
            /\ cleanups' = IF m_tasks[it].cleanup
                           THEN Bump(cleanups, m_tasks[it].id)
                           ELSE cleanups
            /\ cancelled' = cancelled \cup {m_tasks[it].id}
            /\ result' = ReturnedBool(TRUE)
       ELSE /\ result' = ReturnedBool(FALSE)
            /\ UNCHANGED <<m_tasks, cleanups, cancelled>>
    /\ UNCHANGED <<m_nextId, m_nextTaskTime, passEnd, runs, every, apart>>

\* cancelTask erasing the task at once
cancelTaskErase(id) ==
    LET it == FindIf(id) IN
    /\ CallCtx
    /\ pc = "idle"
    /\ IF it # 0
       THEN /\ m_tasks' = SelectSeq(m_tasks, LAMBDA t : t.id # id)
            /\ cleanups' = IF m_tasks[it].cleanup THEN Bump(cleanups, id)
                           ELSE cleanups
            /\ cancelled' = cancelled \cup {id}
            /\ result' = ReturnedBool(TRUE)
       ELSE /\ result' = ReturnedBool(FALSE)
            /\ UNCHANGED <<m_tasks, cleanups, cancelled>>
    /\ UNCHANGED <<m_nextId, m_nextTaskTime, passEnd, runs, every, apart>>

\* Scheduler::cancelTask
cancelTask(id) ==
    LET it == FindIf(id) IN
    /\ CallCtx
    /\ IF it # 0
       THEN /\ m_tasks' = [m_tasks EXCEPT ![it].active = FALSE]
            /\ cleanups' = IF m_tasks[it].cleanup THEN Bump(cleanups, id)
                           ELSE cleanups
            /\ cancelled' = cancelled \cup {id}
            /\ result' = ReturnedBool(TRUE)
       ELSE /\ result' = ReturnedBool(FALSE)
            /\ UNCHANGED <<m_tasks, cleanups, cancelled>>
    /\ UNCHANGED <<m_nextId, m_nextTaskTime, passEnd, runs, every, apart>>

\* ---------------------------------------------------------------- tick
\* the skip loop with < in place of <=
RECURSIVE SkipMissedStrict(_, _, _)
SkipMissedStrict(nextRun, interval, t) ==
    IF nextRun < t THEN SkipMissedStrict(nextRun + interval, interval, t)
    ELSE nextRun

\* while (task.nextRun <= now) task.nextRun += task.interval
RECURSIVE SkipMissed(_, _, _)
SkipMissed(nextRun, interval, t) ==
    IF nextRun <= t THEN SkipMissed(nextRun + interval, interval, t)
    ELSE nextRun

\* Reschedule that leaves a one-shot task active
RescheduleKeepsOneShot(task, t) ==
    IF task.interval > 0
    THEN IF task.skipIfLate
         THEN [task EXCEPT !.nextRun = SkipMissed(@, task.interval, t)]
         ELSE [task EXCEPT !.nextRun = @ + task.interval]
    ELSE task

\* Reschedule that catches up whether or not skipIfLate is set
RescheduleCatchUp(task, t) ==
    IF task.interval > 0
    THEN [task EXCEPT !.nextRun = SkipMissed(@, task.interval, t)]
    ELSE [task EXCEPT !.active = FALSE]

\* Reschedule that re-arms the recurring task it reschedules
RescheduleRearms(task, t) ==
    IF task.interval > 0
    THEN IF task.skipIfLate
         THEN [task EXCEPT !.nextRun = SkipMissed(@, task.interval, t),
                           !.active = TRUE]
         ELSE [task EXCEPT !.nextRun = @ + task.interval, !.active = TRUE]
    ELSE [task EXCEPT !.active = FALSE]

\* tick: what follows task.func for the task that ran
Reschedule(task, t) ==
    IF task.interval > 0
    THEN IF task.skipIfLate
         THEN [task EXCEPT !.nextRun = SkipMissed(@, task.interval, t)]
         ELSE [task EXCEPT !.nextRun = @ + task.interval]
    ELSE [task EXCEPT !.active = FALSE]

\* tick: "update next task time if the task is still active"
Fold(task, cache) ==
    IF task.active /\ task.nextRun < cache THEN task.nextRun ELSE cache

\* loop: the condition of while (m_running) that never fails
WhileTrue == TRUE

\* loop: the condition of while (m_running)
WhileRunning == m_running

\* call_lua_task_function with lua_call: the error leaves the call
ErrorLeavesUnprotected(failed) == failed

\* call_lua_task_function: lua_pcall reports the error on stderr and returns
\* normally, whether or not the Lua function failed
ErrorLeaves(failed) == FALSE

\* tick: now = Clock::now(), the cache reset, begin()/end() of the range-for;
\* called from outside, or by loop() when its while condition holds
TickBegin ==
    /\ pc = "idle" \/ (pc = "head" /\ WhileRunning)
    /\ pc' = "pass"
    /\ now' = clock
    /\ m_nextTaskTime' = TimePointMax
    /\ idx' = 1
    /\ passEnd' = Len(m_tasks)
    /\ tickRuns' = [i \in Ids |-> 0]
    /\ result' = Void
    /\ raised' = {}
    /\ UNCHANGED <<m_tasks, m_nextId, clock, calls, history, apart, looping>>

\* tick: one iteration of the loop, up to the call of task.func
TickVisit ==
    /\ pc = "pass"
    /\ idx <= passEnd
    /\ LET task == m_tasks[idx] IN
       IF task.active /\ task.nextRun <= now
       THEN /\ pc' = "action"
            /\ calls' = 0
            /\ runs' = Count(runs, task.id)
            /\ tickRuns' = Bump(tickRuns, task.id)
            /\ UNCHANGED <<sched, idx>>
       ELSE /\ m_nextTaskTime' = Fold(task, m_nextTaskTime)
            /\ idx' = idx + 1
            /\ UNCHANGED <<m_tasks, m_nextId, pc, calls, runs, tickRuns>>
    /\ result' = Void
    /\ UNCHANGED <<clock, now, passEnd, cleanups, cancelled, every,
                   apart, looping, raised>>

\* the Lua function of the running task fails: control goes back to
\* lua_pcall in call_lua_task_function
ActionRaise ==
    /\ pc = "action"
    /\ m_tasks[idx].id \notin raised
    /\ raised' = raised \cup {m_tasks[idx].id}
    /\ result' = Void
    /\ UNCHANGED <<sched, clock, pc, now, idx, passEnd, calls, tickRuns,
                   history, apart, looping>>

\* tick: task.func returned; reschedule or deactivate, fold, next iteration.
\* With the iterators invalidated by a push_back the ++ may end the process
\* (pc = "aborted").
\* tick catches nothing: an error that left task.func would unwind tick and
\* loop up to the caller.
AfterTaskFunc ==
    /\ pc = "action"
    /\ IF ErrorLeaves(m_tasks[idx].id \in raised)
       THEN /\ pc' = "idle"
            /\ result' = Error
            /\ looping' = FALSE
            /\ stopped' = FALSE
            /\ now' = 0
            /\ idx' = 0
            /\ passEnd' = 0
            /\ tickRuns' = [i \in Ids |-> 0]
            /\ raised' = {}
            /\ UNCHANGED <<sched, history, m_running>>
       ELSE /\ LET task == m_tasks[idx]
                   after == Reschedule(task, now)
               IN /\ m_tasks' = [m_tasks EXCEPT ![idx] = after]
                  /\ cleanups' = IF task.interval > 0 \/ ~task.cleanup
                                 THEN cleanups
                                 ELSE Bump(cleanups, task.id)
                  /\ m_nextTaskTime' = Fold(after, m_nextTaskTime)
            /\ idx' = IF passEnd < 0 THEN idx ELSE idx + 1
            /\ pc' = IF passEnd < 0 THEN "aborted" ELSE "pass"
            /\ result' = Void
            /\ UNCHANGED <<m_nextId, now, passEnd, runs, tickRuns,
                           cancelled, every, loopFlags, looping, raised>>
    /\ calls' = 0
    /\ UNCHANGED clock

\* tick built without RHYTHM_SCHEDULER_METRICS
ActionReturn == AfterTaskFunc /\ UNCHANGED metrics

\* a purge that removes the finished one-shot tasks only
PurgeOneShots(tasks) == SelectSeq(tasks, LAMBDA t : t.active \/ t.interval > 0)

\* std::remove_if + erase of the inactive tasks
Purge(tasks) == SelectSeq(tasks, LAMBDA t : t.active)

\* tick: after the loop
TickEnd ==
    /\ pc = "pass"
    /\ idx > passEnd
    /\ m_tasks' = Purge(m_tasks)
    /\ m_nextTaskTime' = IF Purge(m_tasks) = <<>> THEN TimePointMax
                         ELSE m_nextTaskTime
    /\ pc' = IF looping THEN "wake" ELSE "idle"
    /\ now' = 0
    /\ idx' = 0
    /\ passEnd' = 0
    /\ tickRuns' = [i \in Ids |-> 0]
    /\ raised' = {}
    /\ result' = Void
    /\ LET kept == {m_tasks[p].id : p \in ActivePositions} IN
       /\ runs' = [i \in Ids |-> IF i \in kept THEN runs[i] ELSE 0]
       /\ cleanups' = [i \in Ids |-> IF i \in kept THEN cleanups[i] ELSE 0]
       /\ cancelled' = cancelled \cap kept
       /\ every' = every \cap kept
    /\ UNCHANGED <<m_nextId, clock, calls, apart, looping>>

\* ---------------------------------------------------------------- introspection
None == -1

\* Scheduler::nextTaskTime
nextTaskTime == IF m_nextTaskTime = TimePointMax THEN None ELSE m_nextTaskTime

\* Scheduler::timeUntilNextTask, in milliseconds
timeUntilNextTask ==
    IF m_nextTaskTime = TimePointMax THEN None
    ELSE IF m_nextTaskTime <= clock THEN 0
    ELSE DurationCastMs(m_nextTaskTime - clock)

\* what a Lua caller (local ms = f()) gets from a C function that pushed
\* value (None for lua_pushnil) and returned nresults: the top nresults
\* values of the stack, adjusted to one value, so nil when there are none
LuaNil == <<"nil">>
LuaInteger(n) == <<"integer", n>>
LuaResults(value, nresults) ==
    IF nresults = 0 THEN LuaNil
    ELSE IF value = None THEN LuaNil ELSE LuaInteger(value)

\* lua_get_ms_until_next_task: pushes timeUntilNextTask() or nil, return 0
lua_get_ms_until_next_task ==
    /\ CallCtx
    /\ result' = LuaResults(timeUntilNextTask, 0)
    /\ UNCHANGED <<sched, passEnd, history, apart>>

\* ---------------------------------------------------------------- metrics
\* noteTaskRun with plain ++ and +=: the unsigned counters wrap, the
\* duration overflows
noteTaskRunWrapping(runTime, wasLate) ==
    /\ m_totalRuns' = (m_totalRuns + 1) % (UIntMax + 1)
    /\ m_lateRuns' = IF wasLate THEN (m_lateRuns + 1) % (UIntMax + 1)
                     ELSE m_lateRuns
    /\ m_totalRunTime' = (m_totalRunTime + runTime) % (DurMsMax + 1)
    /\ UNCHANGED m_metricsStartTime

\* Scheduler::noteTaskRun
noteTaskRun(runTime, wasLate) ==
    /\ m_totalRuns' = IF m_totalRuns < UIntMax THEN m_totalRuns + 1
                      ELSE m_totalRuns
    /\ m_lateRuns' = IF wasLate /\ m_lateRuns < UIntMax THEN m_lateRuns + 1
                     ELSE m_lateRuns
    /\ m_totalRunTime' = IF DurMsMax - m_totalRunTime > runTime
                         THEN m_totalRunTime + runTime
                         ELSE DurMsMax
    /\ UNCHANGED m_metricsStartTime

\* tick built with RHYTHM_SCHEDULER_METRICS: the measured run duration and
\* lateness of the run are drawn from bounded sets
ActionReturnNoting ==
    /\ AfterTaskFunc
    /\ \E runTime \in 0..MaxRunMs, wasLate \in BOOLEAN :
          noteTaskRun(runTime, wasLate)

\* resetMetrics that also forgets the scheduled tasks
resetMetricsAndTasks ==
    /\ CallCtx
    /\ pc = "idle"
    /\ m_totalRuns' = 0
    /\ m_lateRuns' = 0
    /\ m_totalRunTime' = 0
    /\ m_metricsStartTime' = clock
    /\ m_tasks' = <<>>
    /\ m_nextTaskTime' = TimePointMax
    /\ result' = Void
    /\ UNCHANGED <<m_nextId, passEnd, history, loopFlags>>

\* Scheduler::resetMetrics
resetMetrics ==
    /\ CallCtx
    /\ m_totalRuns' = 0
    /\ m_lateRuns' = 0
    /\ m_totalRunTime' = 0
    /\ m_metricsStartTime' = clock
    /\ result' = Void
    /\ UNCHANGED <<sched, passEnd, history, loopFlags>>

\* Scheduler::getMetrics: measurementWindow
measurementWindow == DurationCastMs(clock - m_metricsStartTime)

\* ---------------------------------------------------------------- loop
\* loop() sleeps for DurationMs(100) when no task is scheduled
IdleSleepMs == 100

\* std::this_thread::sleep_until / sleep_for: the times at which a sleep
\* with wake time t may return
SleepUntil(t) ==
    LET due == IF t > clock THEN t ELSE clock IN due..(due + MaxLate)

\* loop: a return that reports false whatever the flag holds
ReturnStopped ==
    /\ result' = ReturnedBool(FALSE)
    /\ pc' = "idle"
    /\ looping' = FALSE
    /\ stopped' = FALSE

\* loop: return m_running
ReturnRunning ==
    /\ result' = ReturnedBool(m_running)
    /\ pc' = "idle"
    /\ looping' = FALSE
    /\ stopped' = FALSE

\* Scheduler::loop called from outside: m_running = true, on to the while
loop ==
    /\ pc = "idle"
    /\ pc' = "head"
    /\ m_running' = TRUE
    /\ looping' = TRUE
    /\ stopped' = FALSE
    /\ result' = Void
    /\ UNCHANGED <<sched, clock, tickLocals, passEnd, calls, history, raised,
                   metrics>>

\* loop: the while condition fails
LoopReturn ==
    /\ pc = "head"
    /\ ~WhileRunning
    /\ ReturnRunning
    /\ UNCHANGED <<sched, clock, tickLocals, passEnd, calls, history, raised,
                   m_running, metrics>>

\* loop without the break: it sleeps IdleSleepMs and goes round
LoopWakeNoBreak ==
    /\ pc = "wake"
    /\ IF nextTaskTime # None
       THEN clock' \in SleepUntil(nextTaskTime)
       ELSE clock' \in SleepUntil(clock + DurationMs(IdleSleepMs))
    /\ pc' = "head"
    /\ result' = Void
    /\ UNCHANGED <<sched, tickLocals, passEnd, calls, history, raised,
                   m_running, looping, stopped, metrics>>

\* loop: after tick, sleep until the next task time and go round, or sleep
\* IdleSleepMs, break and return when there is none
LoopWake ==
    /\ pc = "wake"
    /\ IF nextTaskTime # None
       THEN /\ clock' \in SleepUntil(nextTaskTime)
            /\ pc' = "head"
            /\ result' = Void
            /\ UNCHANGED <<looping, stopped>>
       ELSE /\ clock' \in SleepUntil(clock + DurationMs(IdleSleepMs))
            /\ ReturnRunning
    /\ UNCHANGED <<sched, tickLocals, passEnd, calls, history, raised,
                   m_running, metrics>>

\* Scheduler::stopLoop
stopLoop ==
    /\ CallCtx
    /\ m_running' = FALSE
    /\ stopped' = looping
    /\ result' = Void
    /\ UNCHANGED <<sched, passEnd, history, metrics>>

\* ---------------------------------------------------------------- environment
\* the steady clock advances, between operations and while a task function runs
Advance ==
    /\ pc \in {"idle", "action"}
    /\ clock < MaxTime
    /\ clock' = clock + 1
    /\ result' = Void
    /\ UNCHANGED <<sched, pc, now, idx, passEnd, calls, tickRuns, history,
                   apart, looping, raised>>

InitScheduler ==
    /\ m_tasks = <<>>
    /\ m_nextId = 1
    /\ m_nextTaskTime = TimePointMax
    /\ clock = 0
    /\ pc = "idle"
    /\ now = 0
    /\ idx = 0
    /\ passEnd = 0
    /\ calls = 0
    /\ result = Void
    /\ runs = [i \in Ids |-> 0]
    /\ tickRuns = [i \in Ids |-> 0]
    /\ cleanups = [i \in Ids |-> 0]
    /\ cancelled = {}
    /\ every = {}
    /\ m_running = FALSE
    /\ looping = FALSE
    /\ stopped = FALSE
    /\ raised = {}

Init ==
    /\ InitScheduler
    /\ m_totalRuns = 0
    /\ m_lateRuns = 0
    /\ m_totalRunTime = 0
    /\ m_metricsStartTime = 0

\* the environment registers MaxRegs tasks at most
Next ==
    \/ \E time \in TimePoints : m_nextId <= MaxRegs /\ scheduleAt(time, TRUE)
    \/ \E delayMs \in -MaxMs..MaxMs :
          (delayMs >= 0 => m_nextId <= MaxRegs) /\ lua_schedule_after(delayMs)
    \/ \E ms \in Ms, runImmediately, skipIfLate \in BOOLEAN :
          /\ m_nextId <= MaxRegs
          /\ scheduleEvery(DurationMs(ms), TRUE, runImmediately, skipIfLate)
    \/ \E delayMs \in -MaxMs..MaxMs, extra \in BOOLEAN :
          /\ delayMs >= 0 => m_nextId <= MaxRegs
          /\ lua_schedule_every(delayMs, extra)
    \/ \E id \in Ids : cancelTask(id)
    \/ TickBegin
    \/ TickVisit
    \/ ActionReturn
    \/ TickEnd
    \/ Advance

Spec == Init /\ [][Next]_vars

\* ---------------------------------------------------------------- re-entrant registration
\* registrations the environment of SpecReentrant makes
PassRegs == 3

\* one-shot tasks registered between ticks or by a running task function
NextReentrant ==
    \/ \E time \in TimePoints : m_nextId <= PassRegs /\ scheduleAt(time, TRUE)
    \/ TickBegin
    \/ TickVisit
    \/ ActionReturn
    \/ TickEnd
    \/ Advance

SpecReentrant == Init /\ [][NextReentrant]_vars

\* the library with loop, stop_loop and ms_until_next_task: a loop() is
\* entered, and sleeps until a task time, within the clock's range
NextLoop ==
    \/ Next
    \/ lua_get_ms_until_next_task
    \/ clock <= MaxTime /\ loop
    \/ LoopReturn
    \/ LoopWake /\ (pc' = "head" => clock' <= MaxTime)
    \/ stopLoop

SpecLoop == Init /\ [][NextLoop]_vars

\* the library with task functions that may fail
NextFail ==
    \/ Next
    \/ ActionRaise

SpecFail == Init /\ [][NextFail]_vars

\* the build with RHYTHM_SCHEDULER_METRICS, with counters that have been
\* counting for any length of time: every value up to the maximum, lateRuns
\* not above totalRuns
InitMetrics ==
    /\ InitScheduler
    /\ m_totalRuns \in 0..UIntMax
    /\ m_lateRuns \in 0..m_totalRuns
    /\ m_totalRunTime \in 0..DurMsMax
    /\ m_metricsStartTime = 0

NextMetrics ==
    \/ \E time \in TimePoints :
          m_nextId <= MetricsRegs /\ scheduleAt(time, TRUE)
    \/ \E ms \in Ms, runImmediately, skipIfLate \in BOOLEAN :
          /\ m_nextId <= MetricsRegs
          /\ scheduleEvery(DurationMs(ms), TRUE, runImmediately, skipIfLate)
    \/ \E id \in Ids : cancelTask(id)
    \/ TickBegin
    \/ TickVisit
    \/ ActionReturnNoting
    \/ TickEnd
    \/ resetMetrics
    \/ Advance

SpecMetrics == InitMetrics /\ [][NextMetrics]_vars

\* ---------------------------------------------------------------- one-shot tasks
\* one-shot tasks are registered (and possibly cancelled), then loop() is
\* called; the task functions call nothing, stopLoop() included, so the
\* while condition of loop() holds whenever it is read
NextOneShots ==
    \/ \E time \in TimePoints :
          pc = "idle" /\ m_nextId <= MaxRegs /\ scheduleAt(time, TRUE)
    \/ \E delayMs \in Ms :
          pc = "idle" /\ m_nextId <= MaxRegs /\ lua_schedule_after(delayMs)
    \/ \E id \in Ids : pc = "idle" /\ cancelTask(id)
    \/ clock <= MaxTime /\ loop
    \/ pc = "head" /\ TickBegin
    \/ TickVisit
    \/ ActionReturn
    \/ TickEnd
    \/ LoopWake
    \/ Advance

\* the steps the thread inside loop() takes by itself: task functions
\* return, sleeps end, tick and loop go on with their next statement
LoopStep ==
    \/ pc = "head" /\ TickBegin
    \/ TickVisit
    \/ ActionReturn
    \/ TickEnd
    \/ LoopWake

FairOneShots == Init /\ [][NextOneShots]_vars /\ WF_vars(LoopStep)

\* ---------------------------------------------------------------- README example
\* rhythm.schedule_every(2000, tick), and the same period in schedule_tock
TickEveryMs == 2000
\* rhythm.schedule_after(1000, schedule_tock)
TockAfterMs == 1000
\* rhythm.schedule_after(10000, stop_loop)
StopAfterMs == 10000

\* the ids the example's registrations get: tick, schedule_tock, stop_loop,
\* and tock once schedule_tock has run
TickId == 1
ScheduleTockId == 2
StopLoopId == 3
TockId == 4

\* what the Lua function of a task calls: schedule_tock and stop_loop make
\* one call each, tick and tock only print
ExampleBody(id) ==
    IF id = ScheduleTockId THEN lua_schedule_every(TickEveryMs, FALSE)
    ELSE IF id = StopLoopId THEN stopLoop
    ELSE FALSE

\* the script: three registrations, then one loop(); the clock advances
\* between its statements and sleeps overrun
NextExample ==
    \/ pc = "idle" /\ m_nextId = TickId /\ lua_schedule_every(TickEveryMs, FALSE)
    \/ pc = "idle" /\ m_nextId = ScheduleTockId /\ lua_schedule_after(TockAfterMs)
    \/ pc = "idle" /\ m_nextId = StopLoopId /\ lua_schedule_after(StopAfterMs)
    \/ m_nextId = TockId /\ loop
    \/ pc = "head" /\ TickBegin
    \/ TickVisit
    \/ pc = "action" /\ calls = 0 /\ ExampleBody(m_tasks[idx].id)
    \/ /\ pc = "action"
       /\ m_tasks[idx].id \in {ScheduleTockId, StopLoopId} => calls = 1
       /\ ActionReturn
    \/ TickEnd
    \/ LoopWake
    \/ LoopReturn
    \/ Advance

SpecExample == Init /\ [][NextExample]_vars

\* ---------------------------------------------------------------- properties
Last(seq) == seq[Len(seq)]

\* the earliest nextRun over the active tasks (only used when there is one)
EarliestActive ==
    CHOOSE e \in {m_tasks[p].nextRun : p \in ActivePositions} :
        \A p \in ActivePositions : e <= m_tasks[p].nextRun

\* C1: over every sequence of scheduling, cancelTask and tick steps, calls
\* from inside a running task function included, the cleanup of each task
\* is invoked at most once.
C1_CleanupAtMostOnce == \A id \in Ids : cleanups[id] <= 1

\* C2: cancelTask(id) returns true only when id is in the store and active;
\* when the task is already inactive it returns false and does not invoke
\* the cleanup again.
C2_CancelTrueOnlyIfActive ==
    [][\A id \in Ids :
          cancelTask(id) =>
            LET it == FindIf(id) IN
            /\ result' = ReturnedBool(TRUE) => (it # 0 /\ m_tasks[it].active)
            /\ (it # 0 /\ ~m_tasks[it].active) =>
                  (result' = ReturnedBool(FALSE) /\ cleanups' = cleanups)]_vars

\* a one-shot task (scheduleAt/scheduleAfter) that was never cancelled
OneShotUncancelled(t) ==
    t.interval = 0 /\ t.id \notin every /\ t.id \notin cancelled

\* C3: a one-shot task that is not cancelled runs exactly once, in the first
\* tick whose now is >= its nextRun: its function is only ever started when
\* it is active and due, and when a tick that found it due returns, the
\* task is gone from the store (taskCount dropped by the purged tasks), its
\* function has run once and its cleanup has fired once; nothing runs or
\* cleans up a task that is no longer in the store.
C3_OneShotRunsOnce ==
    [][/\ \A id \in Ids :
             runs'[id] > runs[id] =>
               /\ pc = "pass" /\ FindIf(id) = idx
               /\ m_tasks[idx].active /\ m_tasks[idx].nextRun <= now
               /\ runs'[id] = runs[id] + 1
       /\ \A id \in Ids \ StoreIds :
             runs'[id] = runs[id] /\ cleanups'[id] = cleanups[id]
       /\ (pc = "pass" /\ pc' = "idle") =>
             /\ Len(m_tasks') =
                   Len(m_tasks) - Cardinality((1..Len(m_tasks)) \ ActivePositions)
             /\ \A p \in 1..passEnd :
                   LET t == m_tasks[p] IN
                   (OneShotUncancelled(t) /\ t.nextRun <= now) =>
                      /\ ~(\E q \in 1..Len(m_tasks') : m_tasks'[q].id = t.id)
                      /\ ~t.active
                      /\ runs[t.id] = 1
                      /\ tickRuns[t.id] = 1
                      /\ t.cleanup => cleanups[t.id] = 1]_vars

\* C3 witness: the pass is over and a one-shot task that ran in it, once,
\* and was cleaned up once awaits the purge
C3_Witness ==
    /\ pc = "pass" /\ idx > passEnd
    /\ \E p \in 1..passEnd :
          /\ OneShotUncancelled(m_tasks[p]) /\ ~m_tasks[p].active
          /\ runs[m_tasks[p].id] = 1 /\ cleanups[m_tasks[p].id] = 1

\* C4: a task registered by scheduleEvery with interval zero is always due:
\* it stays active in the store after each run and is not deactivated or
\* cleaned up the way a one-shot task is.
C4_ZeroIntervalStaysActive ==
    \A p \in 1..Len(m_tasks) :
        LET t == m_tasks[p] IN
        (t.id \in every /\ t.interval = 0 /\ t.id \notin cancelled) =>
           (t.active /\ cleanups[t.id] = 0)

\* C5: between operations, timeUntilNextTask() and nextTaskTime() are none
\* exactly when the store holds no active task; with an active task,
\* timeUntilNextTask() is zero when the earliest active nextRun is <= now
\* and that nextRun minus now (in milliseconds) otherwise.
C5_NoneIffNoActiveTask ==
    pc = "idle" =>
       /\ nextTaskTime = None <=> ActivePositions = {}
       /\ timeUntilNextTask = None <=> ActivePositions = {}
       /\ ActivePositions # {} =>
             timeUntilNextTask =
                IF EarliestActive <= clock THEN 0
                ELSE DurationCastMs(EarliestActive - clock)

\* C6: within one tick no task function runs twice; a task that is active
\* and due when the pass reaches it runs, and at the end of the pass every
\* active task that did not run is not due; a run of a recurring task with
\* skipIfLate = false advances nextRun by exactly one interval.
C6_OncePerTick ==
    [][/\ \A id \in Ids : tickRuns'[id] <= 1
       /\ (/\ pc = "pass" /\ idx <= passEnd
           /\ m_tasks[idx].active /\ m_tasks[idx].nextRun <= now) =>
             (pc' = "action" /\ tickRuns'[m_tasks[idx].id] = 1)
       /\ (pc = "action" /\ pc' = "pass") =>
             LET t == m_tasks[idx] IN
             (t.interval > 0 /\ ~t.skipIfLate) =>
                m_tasks'[idx].nextRun = t.nextRun + t.interval
       /\ (pc = "pass" /\ pc' = "idle") =>
             \A p \in 1..passEnd :
                (m_tasks[p].active /\ tickRuns[m_tasks[p].id] = 0) =>
                   m_tasks[p].nextRun > now]_vars

\* C6 witness: a skipIfLate = false task ran once in this tick and is still
\* behind (its nextRun is still <= now)
C6_Witness ==
    /\ pc = "pass"
    /\ \E p \in 1..Len(m_tasks) :
          /\ m_tasks[p].interval > 0 /\ ~m_tasks[p].skipIfLate
          /\ m_tasks[p].active
          /\ tickRuns[m_tasks[p].id] = 1
          /\ m_tasks[p].nextRun <= now

\* C7: a run of a recurring task with skipIfLate = true, interval d > 0 and
\* nextRun r <= now leaves nextRun at the smallest r + k*d, k >= 1, that is
\* strictly greater than the tick's now.
C7_SkipToNextBoundary ==
    [][(pc = "action" /\ pc' = "pass") =>
          LET t == m_tasks[idx]
              n == m_tasks'[idx].nextRun
          IN (t.interval > 0 /\ t.skipIfLate) =>
                /\ t.nextRun <= now
                /\ n > now
                /\ n - t.interval <= now
                /\ \E k \in 1..(MaxTime + 1) : n = t.nextRun + k * t.interval]_vars

\* C7 witness: a skipIfLate task ran with now exactly on one of its
\* boundaries and now sits one whole interval past now
C7_Witness ==
    /\ pc = "pass"
    /\ \E p \in 1..Len(m_tasks) :
          /\ m_tasks[p].interval > 0 /\ m_tasks[p].skipIfLate
          /\ tickRuns[m_tasks[p].id] = 1
          /\ m_tasks[p].nextRun = now + m_tasks[p].interval
          /\ now >= m_tasks[p].interval

\* C8: schedule_after / schedule_every with a negative number of
\* milliseconds raise an error and leave the store, the id counter and the
\* cached next-task time as they were.
C8_NegativeRejected ==
    [][\A ms \in -MaxMs..-1 :
          (lua_schedule_after(ms) \/ \E extra \in BOOLEAN :
                                        lua_schedule_every(ms, extra)) =>
             /\ result' = Error
             /\ m_tasks' = m_tasks
             /\ taskCount' = taskCount
             /\ m_nextId' = m_nextId
             /\ m_nextTaskTime' = m_nextTaskTime]_vars

\* C8 witness: a call was rejected while the store holds a task
C8_Witness == pc = "idle" /\ result = Error /\ taskCount > 0

\* C9: scheduleEvery creates a task whose nextRun is now when runImmediately
\* is true and now + interval when it is false; schedule_every(ms, fn, true)
\* from Lua asks for runImmediately and gets a task whose nextRun is now.
C9_RunImmediately ==
    [][/\ \A ms \in Ms, ri, sl \in BOOLEAN :
             scheduleEvery(DurationMs(ms), TRUE, ri, sl) =>
                Last(m_tasks').nextRun =
                   IF ri THEN clock ELSE clock + DurationMs(ms)
       /\ \A ms \in Ms :
             lua_schedule_every(ms, TRUE) => Last(m_tasks').nextRun = clock]_vars

\* C10: every registration hands out the current value of the id counter
\* and advances it, the counter never goes back, and the store lists its
\* tasks by strictly increasing id, all below the counter: ids are handed
\* out in increasing order, never twice, and the store holds one record per
\* id at most.
C10_IdsIncrease ==
    [][/\ m_nextId' >= m_nextId
       /\ Len(m_tasks') > Len(m_tasks) =>
             /\ m_tasks' = Append(m_tasks, Last(m_tasks'))
             /\ Last(m_tasks').id = m_nextId
             /\ result' = ReturnedId(m_nextId)
             /\ m_nextId' = m_nextId + 1
       /\ \A q \in 1..Len(m_tasks') :
             /\ m_tasks'[q].id < m_nextId'
             /\ \A p \in 1..(q - 1) : m_tasks'[p].id < m_tasks'[q].id]_vars

\* C10 witness: id 2 was handed out and id 1 is no longer in the store
C10_Witness ==
    /\ pc = "idle"
    /\ result = ReturnedId(2)
    /\ StoreIds = {2}

\* C11: loop() returns false if and only if stopLoop() was called during
\* that invocation; a loop() that ends because no task is scheduled any
\* more, with no stopLoop() call, returns true.
C11_ReturnTellsStop ==
    [][(looping /\ ~looping') =>
          /\ result' = ReturnedBool(~stopped)
          /\ (pc = "wake" /\ ~stopped) =>
                (nextTaskTime = None /\ result' = ReturnedBool(TRUE))
          /\ pc = "head" => stopped]_vars

\* C11 witness: a loop() that ran tasks has returned true from an empty store
C11_Witness ==
    /\ pc = "idle" /\ ~looping
    /\ result = ReturnedBool(TRUE)
    /\ m_running
    /\ m_tasks = <<>> /\ m_nextId > 1
    /\ clock >= DurationMs(IdleSleepMs)

\* C12: in the README example (tick every 2000 ms, schedule_tock once after
\* 1000 ms registering tock every 2000 ms, stop_loop once after 10000 ms) the
\* single loop() call returns false, and by then tick has run exactly five
\* times, tock exactly four times and stop_loop exactly once: stop_loop
\* leaves the store having run once and no task runs once it has left.
C12_Example ==
    [][/\ (looping /\ ~looping') =>
             /\ result' = ReturnedBool(FALSE)
             /\ runs[TickId] = 5
             /\ runs[TockId] = 4
             /\ m_nextId = TockId + 1
             /\ StoreIds = {TickId, TockId}
       /\ \A id \in {ScheduleTockId, StopLoopId} :
             (id \in StoreIds /\ id \notin StoreIds') => runs[id] = 1
       /\ \A id \in Ids \ StoreIds : runs'[id] <= runs[id]]_vars

\* C12 witness: the example's loop() has returned after five runs of tick
\* and four of tock
C12_Witness ==
    /\ pc = "idle" /\ ~looping
    /\ result = ReturnedBool(FALSE)
    /\ runs[TickId] = 5 /\ runs[TockId] = 4
    /\ StoreIds = {TickId, TockId}

\* C13: once a task function has called stopLoop() during a tick run by
\* loop(), the pass of that tick still runs the due tasks it reaches, but
\* after that tick the loop() invocation starts no tick and runs no task
\* function: it only sleeps and returns.
C13_NoTickAfterStop ==
    [][(looping /\ stopped) =>
          /\ (/\ pc = "pass" /\ idx <= passEnd
              /\ m_tasks[idx].active /\ m_tasks[idx].nextRun <= now) =>
                pc' = "action"
          /\ pc \in {"wake", "head"} =>
                /\ pc' \in {"head", "idle"}
                /\ runs' = runs
                /\ pc' = "idle" => ~looping']_vars

\* C13 witness: stopLoop() was called in the tick before, loop() is back at
\* its while condition and a task is due
C13_Witness ==
    /\ pc = "head" /\ looping /\ stopped
    /\ \E p \in ActivePositions : m_tasks[p].nextRun <= clock

\* C14: loop() over one-shot tasks whose functions register nothing
\* terminates: when no active task is left after a tick, loop() returns
\* without another tick; every task that leaves the store uncancelled has
\* run once; loop() returns from an empty store; a loop() over an empty
\* store never comes back to its while condition (a single tick); and every
\* loop() eventually returns.
C14_LoopTerminates ==
    /\ [][looping =>
            /\ (pc = "wake" /\ ActivePositions = {}) =>
                  (pc' = "idle" /\ ~looping')
            /\ ~looping' => (m_tasks = <<>> /\ result' = ReturnedBool(TRUE))
            /\ m_tasks = <<>> => (m_tasks' = <<>> /\ pc' # "head")
            /\ \A p \in 1..Len(m_tasks) :
                  LET t == m_tasks[p] IN
                  (t.id \notin StoreIds' /\ t.id \notin cancelled) =>
                     runs[t.id] = 1]_vars
    /\ (looping ~> ~looping)

\* C14 witness: the pass of a tick run by loop() is over and every task of
\* the store, none cancelled, has run once and awaits the purge
C14_Witness ==
    /\ looping /\ pc = "pass" /\ idx > passEnd
    /\ Len(m_tasks) > 1
    /\ \A p \in 1..Len(m_tasks) :
          /\ ~m_tasks[p].active
          /\ m_tasks[p].id \notin cancelled
          /\ runs[m_tasks[p].id] = 1

\* C15: a task function that fails does not abort the tick. The failure
\* itself changes no scheduler state; the failed task is then rescheduled
\* (recurring: nextRun moves on, still active) or deactivated with its
\* cleanup (one-shot) and the pass moves to the next task; a tick in which
\* a function failed ends with the purge and the cache as usual, having
\* run every active due task of its pass. (A function that registered a
\* task before it failed is left to C23: passEnd > 0 says the iterators of
\* the pass still work.)
C15_FailureDoesNotAbortTick ==
    [][/\ raised' # raised /\ raised' # {} =>
             (pc = "action" /\ pc' = "action" /\ sched' = sched
              /\ idx' = idx /\ now' = now /\ cleanups' = cleanups)
       /\ (/\ pc = "action" /\ m_tasks[idx].id \in raised /\ pc' # "action"
           /\ passEnd > 0) =>
             LET t == m_tasks[idx] IN
             /\ pc' = "pass" /\ idx' = idx + 1 /\ result' # Error
             /\ \A p \in 1..Len(m_tasks) : p # idx => m_tasks'[p] = m_tasks[p]
             /\ IF t.interval > 0
                THEN /\ m_tasks'[idx].active = t.active
                     /\ m_tasks'[idx].nextRun > t.nextRun
                     /\ ~t.skipIfLate =>
                           m_tasks'[idx].nextRun = t.nextRun + t.interval
                     /\ cleanups' = cleanups
                ELSE /\ ~m_tasks'[idx].active
                     /\ cleanups' = Bump(cleanups, t.id)
             /\ m_nextTaskTime' = Fold(m_tasks'[idx], m_nextTaskTime)
       /\ (pc = "pass" /\ pc' # "pass" /\ pc' # "action" /\ raised # {}) =>
             /\ idx > passEnd
             /\ m_tasks' = Purge(m_tasks)
             /\ m_nextTaskTime' = IF m_tasks' = <<>> THEN TimePointMax
                                  ELSE m_nextTaskTime
             /\ \A p \in 1..passEnd :
                   (m_tasks[p].active /\ tickRuns[m_tasks[p].id] = 0) =>
                      m_tasks[p].nextRun > now]_vars

\* C15 witness: the pass is over; the function of a one-shot task failed in
\* it, the task was deactivated and cleaned up, and a task after it ran
C15_Witness ==
    /\ pc = "pass" /\ idx > passEnd
    /\ \E p, q \in 1..passEnd :
          /\ p < q
          /\ m_tasks[p].id \in raised
          /\ m_tasks[p].interval = 0 /\ ~m_tasks[p].active
          /\ cleanups[m_tasks[p].id] = 1
          /\ m_tasks[q].id \notin raised
          /\ tickRuns[m_tasks[q].id] = 1

\* C16: cancelTask(id) for an id that is not in the store returns false and
\* changes nothing: the task records, taskCount, the id counter, the cached
\* next-task time and the running flag stay as they were and no cleanup
\* is invoked.
C16_CancelUnknownChangesNothing ==
    [][\A id \in Ids :
          (cancelTask(id) /\ FindIf(id) = 0) =>
             /\ result' = ReturnedBool(FALSE)
             /\ m_tasks' = m_tasks
             /\ taskCount' = taskCount
             /\ m_nextId' = m_nextId
             /\ m_nextTaskTime' = m_nextTaskTime
             /\ m_running' = m_running
             /\ cleanups' = cleanups]_vars

\* C16 witness: with the running flag set and a task in the store, a
\* cancelTask has returned false
C16_Witness ==
    /\ pc = "idle"
    /\ result = ReturnedBool(FALSE)
    /\ m_running
    /\ ActivePositions # {}

\* C17: a cancelTask(id) that finds its task leaves the size of the store
\* as it was and changes nothing but the active flag of that task; the
\* store only ever shrinks by the purge at the end of a tick.
C17_CancelKeepsStoreSize ==
    [][/\ \A id \in Ids :
             (cancelTask(id) /\ FindIf(id) # 0) =>
                /\ taskCount' = taskCount
                /\ m_tasks' = [m_tasks EXCEPT ![FindIf(id)].active = FALSE]
                /\ \A p \in 1..Len(m_tasks) :
                      p # FindIf(id) => m_tasks'[p] = m_tasks[p]
       /\ taskCount' < taskCount =>
             (pc = "pass" /\ idx > passEnd /\ m_tasks' = Purge(m_tasks))]_vars

\* C17 witness: a cancelTask has returned true and the store still holds the
\* cancelled task next to an active one
C17_Witness ==
    /\ pc = "idle"
    /\ result = ReturnedBool(TRUE)
    /\ taskCount = 2
    /\ \E p, q \in 1..2 :
          /\ ~m_tasks[p].active /\ m_tasks[p].id \in cancelled
          /\ m_tasks[q].active

\* C18: the metrics counters never wrap. A run leaves totalRuns and
\* lateRuns at the maximum unsigned value once they have reached it and
\* otherwise adds at most one; it adds the run's duration to totalRunTime,
\* or sets it to the maximum duration when the sum would exceed that; and
\* except for resetMetrics() no step lowers a counter.
C18_CountersSaturate ==
    [][/\ m_totalRuns' \in 0..UIntMax
       /\ m_lateRuns' \in 0..UIntMax
       /\ m_totalRunTime' \in 0..DurMsMax
       /\ (pc = "action" /\ pc' = "pass") =>
             /\ m_totalRuns' = IF m_totalRuns = UIntMax THEN UIntMax
                               ELSE m_totalRuns + 1
             /\ m_lateRuns' \in {m_lateRuns, m_lateRuns + 1}
             /\ \E runTime \in 0..MaxRunMs :
                   m_totalRunTime' =
                      IF m_totalRunTime + runTime > DurMsMax THEN DurMsMax
                      ELSE m_totalRunTime + runTime
       /\ \/ resetMetrics
          \/ /\ m_totalRuns' >= m_totalRuns
             /\ m_lateRuns' >= m_lateRuns
             /\ m_totalRunTime' >= m_totalRunTime]_vars

\* C18 witness: a task function has run in this tick since the last reset
\* and all three counters sit at their maximum
C18_Witness ==
    /\ pc = "pass"
    /\ \E id \in Ids : tickRuns[id] = 1
    /\ m_totalRuns = UIntMax
    /\ m_lateRuns = UIntMax
    /\ m_totalRunTime = DurMsMax

\* C19: resetMetrics() sets totalRuns, lateRuns and totalRunTime to zero and
\* starts the measurement window anew (it begins at the present instant and
\* measures zero), and leaves the tasks of the store, with their nextRun,
\* active and interval, the id counter and the cached next-task time as
\* they were.
C19_ResetMetricsFrame ==
    [][resetMetrics =>
          /\ m_totalRuns' = 0
          /\ m_lateRuns' = 0
          /\ m_totalRunTime' = 0
          /\ m_metricsStartTime' = clock
          /\ measurementWindow' = 0
          /\ m_tasks' = m_tasks
          /\ taskCount' = taskCount
          /\ m_nextId' = m_nextId
          /\ m_nextTaskTime' = m_nextTaskTime]_vars

\* C19 witness: the metrics were reset at the present instant, after the
\* task that is still in the store had run
C19_Witness ==
    /\ pc = "idle"
    /\ clock > 0 /\ m_metricsStartTime = clock
    /\ m_totalRuns = 0 /\ m_lateRuns = 0 /\ m_totalRunTime = 0
    /\ \E p \in ActivePositions : runs[m_tasks[p].id] > 0

\* C20: the Lua function reporting the milliseconds until the next task
\* hands its caller an integer when a task is scheduled (0 when that task
\* is due, the remaining milliseconds otherwise) and nil when none is.
C20_MsUntilNextTaskToLua ==
    [][lua_get_ms_until_next_task =>
          result' = IF timeUntilNextTask = None THEN LuaNil
                    ELSE LuaInteger(timeUntilNextTask)]_vars

\* the minimum nextRun over the active tasks of a store, TimePointMax when
\* it holds none
MinActiveNextRun(tasks) ==
    LET act == {p \in 1..Len(tasks) : tasks[p].active} IN
    IF act = {} THEN TimePointMax
    ELSE CHOOSE e \in {tasks[p].nextRun : p \in act} :
            \A p \in act : e <= tasks[p].nextRun

\* tick() returns: the step that ends the pass (the purge and the final
\* cache adjustment are part of it)
TickReturns == pc = "pass" /\ pc' \in {"idle", "wake"}

\* The pass met two tasks and one of them, which did not run, was cancelled
\* by the function of the other: no task was registered during this tick.
CancelledInPass ==
    /\ Len(m_tasks) = 2
    /\ \E p \in 1..2 :
          /\ ~m_tasks[p].active
          /\ m_tasks[p].id \in cancelled
          /\ tickRuns[m_tasks[p].id] = 0
          /\ tickRuns[m_tasks[3 - p].id] > 0

\* C21: when tick() returns, the cached next-task time is the minimum
\* nextRun over the tasks active at that moment, and none (TimePoint::max())
\* when there is none; stated for the ticks in which a task function
\* cancelled another task and none registered a task.
C21_CacheAfterTick ==
    [][(TickReturns /\ CancelledInPass) =>
          m_nextTaskTime' = MinActiveNextRun(m_tasks')]_vars

\* tick calls task.func of the task at idx
RunsTask == pc = "pass" /\ pc' = "action"

\* C22: once cancelTask(id) has returned true, task.func of task id is not
\* called again: the task that tick runs was never cancelled, a cancelled
\* task stays inactive as long as it is stored (also when it cancelled
\* itself from its own function and tick then reschedules it), and once it
\* is purged its id is below m_nextId, so that no later task carries it.
C22_CancelledNeverRuns ==
    [][/\ RunsTask => m_tasks[idx].id \notin cancelled
       /\ \A id \in cancelled :
             IF id \in {m_tasks'[p].id : p \in 1..Len(m_tasks')}
             THEN /\ id \in cancelled'
                  /\ \A p \in 1..Len(m_tasks') :
                        m_tasks'[p].id = id => ~m_tasks'[p].active
             ELSE id < m_nextId']_vars

\* the pass is over; a task that was due in it was cancelled by the function
\* of a task visited before it, and did not run
C22_Witness ==
    /\ pc = "pass"
    /\ idx > passEnd
    /\ \E p \in 1..Len(m_tasks) : \E q \in 1..(p - 1) :
          /\ m_tasks[p].id \in cancelled
          /\ m_tasks[p].nextRun <= now
          /\ tickRuns[m_tasks[p].id] = 0
          /\ tickRuns[m_tasks[q].id] > 0
          /\ p <= passEnd

\* a recurring task cancelled itself from its own function and was
\* rescheduled by tick
C22_SelfCancelled ==
    /\ pc = "pass"
    /\ \E p \in 1..(idx - 1) :
          /\ m_tasks[p].id \in cancelled
          /\ m_tasks[p].interval > 0
          /\ tickRuns[m_tasks[p].id] > 0
          /\ Len(m_tasks) = 1

\* C23: a task registered from inside a running task function is stored
\* without disturbing the pass: the tick is not cut short, every task the
\* pass had still to visit that is due gets its run.
C23_PassUndisturbed ==
    pc = "aborted" =>
        \A p \in (idx + 1)..(-passEnd) :
            ~(/\ m_tasks[p].active
              /\ m_tasks[p].nextRun <= now
              /\ tickRuns[m_tasks[p].id] = 0)

\* C24: a registration made outside a tick leaves the cached next-task time
\* at the minimum of its previous value and the new task's nextRun, appends
\* the new task and changes no field of a task stored before.
C24_RegistrationFrame ==
    [][(pc = "idle" /\ Len(m_tasks') > Len(m_tasks)) =>
          /\ Len(m_tasks') = Len(m_tasks) + 1
          /\ \A p \in 1..Len(m_tasks) : m_tasks'[p] = m_tasks[p]
          /\ LET nextRun == m_tasks'[Len(m_tasks')].nextRun IN
             m_nextTaskTime' = IF nextRun < m_nextTaskTime THEN nextRun
                               ELSE m_nextTaskTime]_vars

\* a registration made outside a tick has just returned; a task was stored
\* before, and the new task is due later than the cached time
C24_Witness ==
    /\ pc = "idle"
    /\ Len(m_tasks) >= 2
    /\ result = ReturnedId(m_tasks[Len(m_tasks)].id)
    /\ m_tasks[Len(m_tasks)].nextRun > m_nextTaskTime

\* C25: when tick() returns the store holds no inactive task (cancelled
\* before or during the tick, or a one-shot task run in it), and the tasks
\* still active are all there, in the order they had.
C25_PurgeAtTickEnd ==
    [][TickReturns =>
          /\ \A p \in 1..Len(m_tasks') : m_tasks'[p].active
          /\ Len(m_tasks') = Cardinality(ActivePositions)
          /\ \A p \in ActivePositions :
                m_tasks'[Cardinality({q \in ActivePositions : q <= p})]
                    = m_tasks[p]]_vars

\* the pass is over; an inactive task (cancelled, or a one-shot task that
\* ran in this tick) stands before a task that is still active
C25_Witness ==
    /\ pc = "pass"
    /\ idx > passEnd
    /\ \E p, r \in 1..Len(m_tasks) :
          /\ p < r
          /\ ~m_tasks[p].active
          /\ \/ m_tasks[p].id \in cancelled
             \/ m_tasks[p].interval = 0 /\ tickRuns[m_tasks[p].id] > 0
          /\ m_tasks[r].active

====
